---- MODULE Spec2Model ----
(***************************************************************************)
(* A model of src/src/channel.js: Channel (action registry, pending-       *)
(* callback table, correlation-id counter, receiver binding), Sender, and  *)
(* the message transport between the windows the endpoints live in.        *)
(*                                                                         *)
(* JavaScript values are records tagged by the field t: undefined, string, *)
(* number, function, object, Error (a native Error instance) and promise.  *)
(* An absent envelope cid (undefined) is written 0: _sendTo never attaches *)
(* a falsy cid, so 0 stands for nothing else.                              *)
(***************************************************************************)
EXTENDS Integers, Sequences, FiniteSets, TLC

\* ---------------------------------------------------------------- bounds
\* Total number of send calls (send, sendThen) over all endpoints.
MaxSends == 2

\* ------------------------------------------------------------ the world
\* Pair: two endpoints, each in a window of its own (a page and its frame).
\* Loop: three endpoints that live in one window and all talk through it.
Pair == {"A", "B"}
Loop == {"X", "Y", "Z"}
Endpoints == Pair \cup Loop
ChannelName == "demo"
Actions == {"a"}
Handlers == {"h1"}
Messages == {"boom"}

CALLBACK_ACTION == "__CALLBACK__"

\* The window an endpoint lives in: it listens there, and the messages it
\* posts carry it as their source.
Home(X) == IF X \in Loop THEN "bus" ELSE "w" \o X
Windows == {Home(X) : X \in Endpoints}
PairWindows == {Home(X) : X \in Pair}

\* ------------------------------------------------------ JavaScript values
Undef == [t |-> "undefined"]
Str(s) == [t |-> "string", v |-> s]
Num(n) == [t |-> "number", n |-> n]
Fn(f) == [t |-> "function", f |-> f]
Err(m) == [t |-> "Error", message |-> m]
Null == [t |-> "null"]
Bool(b) == [t |-> "boolean", b |-> b]
EmptyObj == [t |-> "object"]

\* The payload of the n-th send call. The code never looks into a payload, so
\* each send carries one of its own: a result then names the request it is for.
Payload(n) == Str("p" \o ToString(n))

Truthy(v) ==
  CASE v.t = "undefined" -> FALSE
    [] v.t = "string" -> v.v # ""
    [] v.t = "number" -> v.n # 0
    [] v.t = "boolean" -> v.b
    [] v.t = "null" -> FALSE
    [] OTHER -> TRUE

\* obj.field of JavaScript: undefined when the property is absent.
Get(obj, field) == IF field \in DOMAIN obj THEN obj[field] ELSE Undef

isObject(v) == v.t = "object"
isFunction(v) == v.t = "function"
isPromiseLike(v) == v.t = "promise"
instanceofError(v) == v.t = "Error"

\* A JavaScript object used as a table: the keys present are its domain.
Put(tbl, k, v) == [x \in DOMAIN tbl \cup {k} |-> IF x = k THEN v ELSE tbl[x]]
Delete(tbl, k) == [x \in DOMAIN tbl \ {k} |-> tbl[x]]
Lookup(tbl, k) == IF k \in DOMAIN tbl THEN tbl[k] ELSE Undef
Lookup0(tbl, k) == IF k \in DOMAIN tbl THEN tbl[k] ELSE 0
EmptyTable == <<>>

\* ------------------------------------------------------------ the state
VARIABLES
  actions,    \* actions[X]: this._actions, action name -> registered function
  callbacks,  \* callbacks[X]: this._callbacks, correlation id -> {cb, keepAlive}
  cid,        \* cid[X]: this._cid, the last correlation id allocated
  receiver,   \* receiver[X]: the window this._receiver is connected to, or "none"
  connected,  \* the message listeners registered on the windows: [win, ep]
  net,        \* messages posted to a window and not yet dispatched
  deferred,   \* handler promises whose then/catch continuation has not run yet
  nsent,      \* history: number of send calls made so far
  issued,     \* history: issued[X], the sends of X that registered a callback
  fired,      \* history: fired[X][c], how often the callback under id c was called
  spent,      \* history: spent[X], the actions whose once proxy ran, until
              \* the action is registered or unregistered again
  last        \* history: what the latest dispatch or continuation did

vars ==
  <<actions, callbacks, cid, receiver, connected, net, deferred, nsent, issued, fired, spent, last>>

\* -------------------------------------------------------------- _sendTo
\* The envelope _sendTo builds (ret), with cid c (0: left undefined).
Envelope(X, action, data, c) ==
  [t |-> "object", data |-> data, channel |-> ChannelName, from |-> X,
   cid |-> c, action |-> action]

\* _sendTo as it would be if the id were taken from the number of pending
\* callbacks instead of a counter of its own.
sendToReuse(X, cbs, ctr, sender, action, data, cb, keepAlive) ==
  LET c == Cardinality(DOMAIN cbs) + 1 IN
  IF Truthy(cb)
  THEN IF isFunction(cb)
       THEN [cbs |-> Put(cbs, c, [t |-> "object", cb |-> cb, keepAlive |-> keepAlive]),
             ctr |-> c,
             push |-> [data |-> Envelope(X, action, data, c), to |-> sender]]
       ELSE [cbs |-> cbs, ctr |-> ctr,
             push |-> [data |-> Envelope(X, action, data, cb.n), to |-> sender]]
  ELSE [cbs |-> cbs, ctr |-> ctr,
        push |-> [data |-> Envelope(X, action, data, 0), to |-> sender]]

\* _sendTo as it would be if registering a callback dropped the entries
\* that are pending.
sendToFresh(X, cbs, ctr, sender, action, data, cb, keepAlive) ==
  IF Truthy(cb)
  THEN IF isFunction(cb)
       THEN [cbs |-> Put(EmptyTable, ctr + 1,
                         [t |-> "object", cb |-> cb, keepAlive |-> keepAlive]),
             ctr |-> ctr + 1,
             push |-> [data |-> Envelope(X, action, data, ctr + 1), to |-> sender]]
       ELSE [cbs |-> cbs, ctr |-> ctr,
             push |-> [data |-> Envelope(X, action, data, cb.n), to |-> sender]]
  ELSE [cbs |-> cbs, ctr |-> ctr,
        push |-> [data |-> Envelope(X, action, data, 0), to |-> sender]]

\* _sendTo as it would be if a caller-supplied id registered its entry too.
sendToIdRegisters(X, cbs, ctr, sender, action, data, cb, keepAlive) ==
  IF Truthy(cb)
  THEN IF isFunction(cb)
       THEN [cbs |-> Put(cbs, ctr + 1,
                         [t |-> "object", cb |-> cb, keepAlive |-> keepAlive]),
             ctr |-> ctr + 1,
             push |-> [data |-> Envelope(X, action, data, ctr + 1), to |-> sender]]
       ELSE [cbs |-> Put(cbs, cb.n,
                         [t |-> "object", cb |-> cb, keepAlive |-> keepAlive]),
             ctr |-> ctr,
             push |-> [data |-> Envelope(X, action, data, cb.n), to |-> sender]]
  ELSE [cbs |-> cbs, ctr |-> ctr,
        push |-> [data |-> Envelope(X, action, data, 0), to |-> sender]]

\* Channel.prototype._sendTo on the tables cbs (_callbacks) and ctr (_cid) of
\* endpoint X: the tables afterwards and the envelope handed to sender.send.
\* sender is the window the Transport Sender posts to.
sendTo(X, cbs, ctr, sender, action, data, cb, keepAlive) ==
  IF Truthy(cb)
  THEN IF isFunction(cb)
       THEN [cbs |-> Put(cbs, ctr + 1,
                         [t |-> "object", cb |-> cb, keepAlive |-> keepAlive]),
             ctr |-> ctr + 1,
             push |-> [data |-> Envelope(X, action, data, ctr + 1), to |-> sender]]
       ELSE [cbs |-> cbs, ctr |-> ctr,
             push |-> [data |-> Envelope(X, action, data, cb.n), to |-> sender]]
  ELSE [cbs |-> cbs, ctr |-> ctr,
        push |-> [data |-> Envelope(X, action, data, 0), to |-> sender]]

\* ---------------------------------------------------- registered handlers
\* What one call of an application handler does is the application's choice:
\* it returns a value, throws, or returns a promise that later resolves or
\* rejects. m is the message of the Error it fails with.
Outcomes ==
  {[k |-> "return", m |-> ""], [k |-> "resolve", m |-> ""]}
    \cup {[k |-> kk, m |-> mm] : kk \in {"throw", "reject"}, mm \in Messages}

\* String(v) of JavaScript, as + applies it to an operand.
ToStr(v) ==
  CASE v.t = "string" -> v.v
    [] v.t = "undefined" -> "undefined"
    [] v.t = "null" -> "null"
    [] v.t = "number" -> ToString(v.n)
    [] OTHER -> "[object Object]"

\* The handler of the dispatch round trip:
\* payload => payload.action + ':' + payload.payload
Routers == {"route"}
route(arg) == Str(ToStr(Get(arg, "action")) \o ":" \o ToStr(Get(arg, "payload")))

\* The value handler h computes from its first argument.
Returned(h, arg) ==
  IF h \in Routers THEN route(arg) ELSE [t |-> "object", by |-> h, got |-> arg]
Promise(ok, v) == [t |-> "promise", ok |-> ok, v |-> v]
NoThrow == [t |-> "nothing"]

\* The value a failing handler throws or rejects with: new Error(m), or, when
\* the outcome names one (field f), any other value.
Failure(oc) == IF "f" \in DOMAIN oc THEN oc.f ELSE Err(oc.m)

\* One call h(args) with outcome oc: the value returned, or the value thrown.
CallHandler(h, args, oc) ==
  CASE oc.k = "return" -> [ret |-> Returned(h, args[1]), exc |-> NoThrow]
    [] oc.k = "resolve" -> [ret |-> Promise(TRUE, Returned(h, args[1])), exc |-> NoThrow]
    [] oc.k = "reject" -> [ret |-> Promise(FALSE, Failure(oc)), exc |-> NoThrow]
    [] OTHER -> [ret |-> Undef, exc |-> Failure(oc)]

\* A registry entry: the function on() stores, or the proxy once() stores.
\* onceArgs: the arguments object the proxy passes on. The proxy is an arrow
\* function, so `arguments` is that of the enclosing once(action, fn) call.
Registered(h) == [t |-> "function", f |-> h, proxy |-> FALSE]
OnceProxy(h) == [t |-> "function", f |-> h, proxy |-> TRUE]
onceArgs(action, h) == <<Str(action), Fn(h)>>

\* act(recv.data) as it would be if the handler were called without the
\* payload.
CallActionNoData(acts, action, act, data, oc) ==
  IF act.proxy
  THEN LET r == CallHandler(act.f, onceArgs(action, act.f), oc) IN
       [acts |-> Delete(acts, action),
        invoked |-> <<[fn |-> act.f, args |-> onceArgs(action, act.f), proxy |-> TRUE]>>,
        ret |-> Undef, exc |-> r.exc]
  ELSE LET r == CallHandler(act.f, <<Undef>>, oc) IN
       [acts |-> acts,
        invoked |-> <<[fn |-> act.f, args |-> <<Undef>>, proxy |-> FALSE]>>,
        ret |-> r.ret, exc |-> r.exc]

\* act(recv.data) as it would be if the once proxy deleted its entry only
\* after fn returned, so that a throwing fn leaves it registered.
CallActionDeleteLate(acts, action, act, data, oc) ==
  IF act.proxy
  THEN LET r == CallHandler(act.f, onceArgs(action, act.f), oc) IN
       [acts |-> IF r.exc = NoThrow THEN Delete(acts, action) ELSE acts,
        invoked |-> <<[fn |-> act.f, args |-> onceArgs(action, act.f), proxy |-> TRUE]>>,
        ret |-> Undef, exc |-> r.exc]
  ELSE LET r == CallHandler(act.f, <<data>>, oc) IN
       [acts |-> acts,
        invoked |-> <<[fn |-> act.f, args |-> <<data>>, proxy |-> FALSE]>>,
        ret |-> r.ret, exc |-> r.exc]

\* act(recv.data) for the entry act registered under action: the registry
\* afterwards, the application handler called with its arguments, and what the
\* call returns or throws. The proxy deletes its entry, calls fn and returns
\* nothing (whatever fn returned is dropped).
CallAction(acts, action, act, data, oc) ==
  IF act.proxy
  THEN LET r == CallHandler(act.f, onceArgs(action, act.f), oc) IN
       [acts |-> Delete(acts, action),
        invoked |-> <<[fn |-> act.f, args |-> onceArgs(action, act.f), proxy |-> TRUE]>>,
        ret |-> Undef, exc |-> r.exc]
  ELSE LET r == CallHandler(act.f, <<data>>, oc) IN
       [acts |-> acts,
        invoked |-> <<[fn |-> act.f, args |-> <<data>>, proxy |-> FALSE]>>,
        ret |-> r.ret, exc |-> r.exc]

\* ---------------------------------------------------------------- _recv
\* The tests of _recv without the one that rejects the endpoint's own envelopes.
AcceptedOwn(X, rc) ==
  /\ isObject(rc)
  /\ rc.channel = ChannelName

\* The tests of _recv without the one of the channel name.
AcceptedAnyChannel(X, rc) ==
  /\ isObject(rc)
  /\ rc.from # X

\* The first three tests of _recv: only objects, only this channel, and not
\* what this endpoint sent itself.
Accepted(X, rc) ==
  /\ isObject(rc)
  /\ rc.channel = ChannelName
  /\ rc.from # X

\* newErr of next: a native Error becomes the plain object {message}.
newErr(err) ==
  IF instanceofError(err) THEN [t |-> "object", message |-> err.message] ELSE err

\* next(err, data) as it would be without the test of recv.cid.
nextAlways(X, cbs, ctr, rc, source, err, data) ==
  <<sendTo(X, cbs, ctr, source, CALLBACK_ACTION,
           [t |-> "object",
            error |-> IF Truthy(err) THEN newErr(err) ELSE err,
            data |-> data],
           Num(rc.cid), Undef).push>>

\* next(err, data) inside _recv for the inbound envelope rc that came from
\* window source: the envelopes pushed (none when rc carries no cid).
next(X, cbs, ctr, rc, source, err, data) ==
  IF rc.cid # 0
  THEN <<sendTo(X, cbs, ctr, source, CALLBACK_ACTION,
                [t |-> "object",
                 error |-> IF Truthy(err) THEN newErr(err) ELSE err,
                 data |-> data],
                Num(rc.cid), Undef).push>>
  ELSE <<>>

NotFound(X, action) ==
  Err("channel \"" \o ChannelName \o "." \o X \o "." \o action \o "\" not found")

\* The callback branch as it would be if it took the oldest pending entry
\* instead of the one under recv.cid.
recvCallbackOldest(cbs, rc) ==
  LET rdata == IF Truthy(rc.data) THEN rc.data ELSE EmptyObj IN
  IF DOMAIN cbs # {}
  THEN LET c == CHOOSE k \in DOMAIN cbs : \A j \in DOMAIN cbs : k <= j IN
       [cbs |-> Delete(cbs, c),
        cbcalls |-> <<[cid |-> c, cb |-> cbs[c].cb,
                       error |-> Get(rdata, "error"),
                       data |-> Get(rdata, "data")]>>]
  ELSE [cbs |-> cbs, cbcalls |-> <<>>]

\* The callback branch as it would be if it never removed an entry.
recvCallbackKeep(cbs, rc) ==
  LET cdata == Lookup(cbs, rc.cid)
      rdata == IF Truthy(rc.data) THEN rc.data ELSE EmptyObj
  IN IF Truthy(cdata)
     THEN [cbs |-> cbs,
           cbcalls |-> <<[cid |-> rc.cid, cb |-> cdata.cb,
                          error |-> Get(rdata, "error"),
                          data |-> Get(rdata, "data")]>>]
     ELSE [cbs |-> cbs, cbcalls |-> <<>>]

\* The callback branch as it would be if a reply that finds no entry were
\* kept in the table.
recvCallbackPark(cbs, rc) ==
  LET cdata == Lookup(cbs, rc.cid)
      rdata == IF Truthy(rc.data) THEN rc.data ELSE EmptyObj
  IN IF Truthy(cdata)
     THEN [cbs |-> IF ~Truthy(Get(cdata, "listen")) THEN Delete(cbs, rc.cid) ELSE cbs,
           cbcalls |-> <<[cid |-> rc.cid, cb |-> cdata.cb,
                          error |-> Get(rdata, "error"),
                          data |-> Get(rdata, "data")]>>]
     ELSE [cbs |-> Put(cbs, rc.cid, [t |-> "object", cb |-> Fn("parked"), got |-> rdata]),
           cbcalls |-> <<>>]

\* The callback branch of _recv.
recvCallback(cbs, rc) ==
  LET cdata == Lookup(cbs, rc.cid)
      rdata == IF Truthy(rc.data) THEN rc.data ELSE EmptyObj
  IN IF Truthy(cdata)
     THEN [cbs |-> IF ~Truthy(Get(cdata, "listen")) THEN Delete(cbs, rc.cid) ELSE cbs,
           cbcalls |-> <<[cid |-> rc.cid, cb |-> cdata.cb,
                          error |-> Get(rdata, "error"),
                          data |-> Get(rdata, "data")]>>]
     ELSE [cbs |-> cbs, cbcalls |-> <<>>]

\* The body of the try block up to the handler's return: the lookup of the
\* handler, the throw when there is none, and the call act(recv.data).
tryAct(X, acts, rc, oc) ==
  LET act == Lookup(acts, rc.action) IN
  IF ~Truthy(act)
  THEN [acts |-> acts, invoked |-> <<>>, ret |-> Undef,
        exc |-> NotFound(X, rc.action)]
  ELSE CallAction(acts, rc.action, act, rc.data, oc)

\* The catch block as it would be if it threw the error on.
catchRethrow(X, cbs, ctr, rc, source, err) ==
  [pushes |-> <<>>, thrown |-> err]

\* The catch block: whatever the try block threw goes to next(err); nothing
\* leaves _recv.
catch(X, cbs, ctr, rc, source, err) ==
  [pushes |-> next(X, cbs, ctr, rc, source, err, Undef), thrown |-> NoThrow]

\* sender.send(ret, origin), the last statement of _sendTo, is the transport's:
\* it posts the envelope ("ok"), raises without posting it ("lost"), or posts
\* it and raises ("raised": a transport that runs the receiving side inside
\* send, where a reply handler throws). px[i] is what the i-th push of one
\* _recv call or continuation does; an outcome without px has a transport
\* that never raises.
PushFaults == {"ok", "lost", "raised"}
NoFaults == [i \in {1, 2} |-> "ok"]
PushError == Err("push failed")
PushFault(oc, i) == IF "px" \in DOMAIN oc THEN oc.px[i] ELSE "ok"
Attempt(pushes, f) ==
  [posted |-> IF f = "lost" THEN <<>> ELSE pushes,
   raised |-> IF pushes # <<>> /\ f # "ok" THEN PushError ELSE NoThrow]

\* next(null, data) with first as its push, inside the try block or the then
\* continuation: what it raises goes to the catch block or continuation,
\* whose next(err) pushes again; what that raises leaves the call.
nextCaught(X, cbs, ctr, rc, source, first, f1, f2) ==
  LET a1 == Attempt(first, f1) IN
  IF a1.raised = NoThrow
  THEN [pushes |-> a1.posted, thrown |-> NoThrow]
  ELSE LET c == catch(X, cbs, ctr, rc, source, a1.raised)
           a2 == Attempt(c.pushes, f2)
       IN [pushes |-> a1.posted \o a2.posted,
           thrown |-> IF c.thrown # NoThrow THEN c.thrown ELSE a2.raised]

\* The action branch of _recv: the handler call inside try/catch, and the
\* reply through next. A promise returned by the handler is left in awaits,
\* its then/catch continuation runs later.
recvAction(X, acts, cbs, ctr, rc, source, oc) ==
  LET r == tryAct(X, acts, rc, oc) IN
  IF r.exc # NoThrow
  THEN LET c == catch(X, cbs, ctr, rc, source, r.exc)
           a == Attempt(c.pushes, PushFault(oc, 1))
       IN [acts |-> r.acts, invoked |-> r.invoked, awaits |-> {},
           pushes |-> a.posted,
           thrown |-> IF c.thrown # NoThrow THEN c.thrown ELSE a.raised]
  ELSE IF isPromiseLike(r.ret)
  THEN [acts |-> r.acts, invoked |-> r.invoked,
        awaits |-> {[ep |-> X, recv |-> rc, source |-> source, p |-> r.ret]},
        pushes |-> <<>>, thrown |-> NoThrow]
  ELSE LET n == nextCaught(X, cbs, ctr, rc, source,
                           next(X, cbs, ctr, rc, source, Null, r.ret),
                           PushFault(oc, 1), PushFault(oc, 2))
       IN [acts |-> r.acts, invoked |-> r.invoked, awaits |-> {},
           pushes |-> n.pushes, thrown |-> n.thrown]

\* The continuation of a handler promise p: then -> next(null, data), and
\* catch -> next(err) for a rejection of p or for what the then continuation
\* raised. thrown: what the catch continuation raised (an unhandled
\* rejection).
settle(X, cbs, ctr, rc, source, p, px) ==
  IF p.ok
  THEN nextCaught(X, cbs, ctr, rc, source,
                  next(X, cbs, ctr, rc, source, Null, p.v), px[1], px[2])
  ELSE LET a == Attempt(next(X, cbs, ctr, rc, source, p.v, Undef), px[1]) IN
       [pushes |-> a.posted, thrown |-> a.raised]

\* Channel.prototype._recv(rc, source) on endpoint X.
recv(X, acts, cbs, ctr, rc, source, oc) ==
  IF ~Accepted(X, rc)
  THEN [acts |-> acts, cbs |-> cbs, invoked |-> <<>>, cbcalls |-> <<>>,
        pushes |-> <<>>, awaits |-> {}, thrown |-> NoThrow]
  ELSE IF rc.action = CALLBACK_ACTION
  THEN LET r == recvCallback(cbs, rc) IN
       [acts |-> acts, cbs |-> r.cbs, invoked |-> <<>>, cbcalls |-> r.cbcalls,
        pushes |-> <<>>, awaits |-> {}, thrown |-> NoThrow]
  ELSE LET r == recvAction(X, acts, cbs, ctr, rc, source, oc) IN
       [acts |-> r.acts, cbs |-> cbs, invoked |-> r.invoked, cbcalls |-> <<>>,
        pushes |-> r.pushes, awaits |-> r.awaits, thrown |-> r.thrown]

\* -------------------------------------------------------- the transport
\* makeReceiver(handle): only a handle with removeEventListener (a window)
\* gives a receiver; "plain" is an object without it, "none" an absent handle.
makeReceiver(handle) == IF handle \in Windows THEN handle ELSE "none"

\* The handles endpoint X can listen on.
ListenHandles(X) == {Home(X), "plain", "none"}

\* A message event: e.data, the window it is dispatched on, e.source, and as
\* history the number of the send call that posted it (id) or, for a reply
\* that next() pushed, of the send call it answers (re).
Posted(X, push, id, re) ==
  [data |-> push.data, to |-> push.to, source |-> Home(X), id |-> id, re |-> re]

\* The endpoints whose receiver is connected to window w.
Listeners(w) == {X \in Endpoints : [win |-> w, ep |-> X] \in connected}

\* ------------------------------------------------------------------ Init
\* new Channel({channel, name}) for every endpoint, no receiver given.
Init ==
  /\ actions = [X \in Endpoints |-> EmptyTable]
  /\ callbacks = [X \in Endpoints |-> EmptyTable]
  /\ cid = [X \in Endpoints |-> 0]
  /\ receiver = [X \in Endpoints |-> "none"]
  /\ connected = {}
  /\ net = {}
  /\ deferred = {}
  /\ nsent = 0
  /\ issued = [X \in Endpoints |-> <<>>]
  /\ fired = [X \in Endpoints |-> EmptyTable]
  /\ spent = [X \in Endpoints |-> {}]
  /\ last = <<>>

\* --------------------------------------------------------------- actions
\* Channel.prototype.unlisten on the binding rcv (this._receiver) of endpoint
\* X and the listeners conn: disconnect removes the listener of the receiver.
unlisten(X, rcv, conn) ==
  IF rcv # "none"
  THEN [receiver |-> "none", connected |-> conn \ {[win |-> rcv, ep |-> X]}]
  ELSE [receiver |-> rcv, connected |-> conn]

\* Channel.prototype.listen(handle) as it would be without the unlisten call
\* it starts with.
listenKeep(X, rcv, conn, handle) ==
  LET r == IF handle # "none" THEN makeReceiver(handle) ELSE "none" IN
  IF r # "none"
  THEN [receiver |-> r, connected |-> conn \cup {[win |-> r, ep |-> X]}]
  ELSE [receiver |-> rcv, connected |-> conn]

\* Channel.prototype.listen(handle): unlisten, then connect a new receiver
\* when the handle is present and makeReceiver gives one.
listen(X, rcv, conn, handle) ==
  LET u == unlisten(X, rcv, conn)
      r == IF handle # "none" THEN makeReceiver(handle) ELSE "none"
  IN IF r # "none"
     THEN [receiver |-> r, connected |-> u.connected \cup {[win |-> r, ep |-> X]}]
     ELSE u

\* The registry and binding calls below are steps only when they change the
\* endpoint: a call that leaves it as it is (unlisten without a receiver, off
\* for an action that is not registered, ...) is a stuttering step.
Unlisten(X) ==
  LET u == unlisten(X, receiver[X], connected) IN
  /\ receiver[X] # "none"
  /\ receiver' = [receiver EXCEPT ![X] = u.receiver]
  /\ connected' = u.connected
  /\ last' = <<>>
  /\ UNCHANGED <<actions, callbacks, cid, net, deferred, nsent, issued, fired, spent>>

Listen(X, handle) ==
  LET l == listen(X, receiver[X], connected, handle) IN
  /\ receiver' = [receiver EXCEPT ![X] = l.receiver]
  /\ connected' = l.connected
  /\ receiver' # receiver
  /\ last' = <<>>
  /\ UNCHANGED <<actions, callbacks, cid, net, deferred, nsent, issued, fired, spent>>

\* Channel.prototype.on(action, fn)
On(X, a, h) ==
  /\ Lookup(actions[X], a) # Registered(h)
  /\ actions' = [actions EXCEPT ![X] = Put(@, a, Registered(h))]
  /\ spent' = [spent EXCEPT ![X] = @ \ {a}]
  /\ last' = <<>>
  /\ UNCHANGED <<callbacks, cid, receiver, connected, net, deferred, nsent, issued, fired>>

\* Channel.prototype.off(action)
Off(X, a) ==
  /\ a \in DOMAIN actions[X]
  /\ actions' = [actions EXCEPT ![X] = Delete(@, a)]
  /\ spent' = [spent EXCEPT ![X] = @ \ {a}]
  /\ last' = <<>>
  /\ UNCHANGED <<callbacks, cid, receiver, connected, net, deferred, nsent, issued, fired>>

\* Channel.prototype.once(action, fn)
Once(X, a, h) ==
  /\ Lookup(actions[X], a) # OnceProxy(h)
  /\ actions' = [actions EXCEPT ![X] = Put(@, a, OnceProxy(h))]
  /\ spent' = [spent EXCEPT ![X] = @ \ {a}]
  /\ last' = <<>>
  /\ UNCHANGED <<callbacks, cid, receiver, connected, net, deferred, nsent, issued, fired>>

\* Sender.prototype.send(action, data, cb, keepAlive) on a Sender that
\* endpoint X created for window w.
send(X, w, action, data, cb, keepAlive) ==
  LET r == sendTo(X, callbacks[X], cid[X], w, action, data, cb, keepAlive) IN
  /\ nsent < MaxSends
  /\ nsent' = nsent + 1
  /\ callbacks' = [callbacks EXCEPT ![X] = r.cbs]
  /\ cid' = [cid EXCEPT ![X] = r.ctr]
  /\ net' = net \cup {Posted(X, r.push, nsent + 1, 0)}
  /\ issued' = IF isFunction(cb)
                THEN [issued EXCEPT ![X] =
                        Append(@, [c |-> r.push.data.cid, id |-> nsent + 1,
                                   cb |-> cb, keepAlive |-> keepAlive])]
                ELSE issued
  /\ last' = <<>>
  /\ UNCHANGED <<actions, receiver, connected, deferred, fired, spent>>

\* send(action, data): no reply handler.
SendForget(X, w, action) ==
  send(X, w, action, Payload(nsent + 1), Undef, Undef)

\* send(action, data, cb, keepAlive) with a function cb.
SendCb(X, w, action, keepAlive) ==
  send(X, w, action, Payload(nsent + 1), Fn("cb"), keepAlive)

\* send(action, data, id): a caller-supplied numeric correlation id.
SendId(X, w, action, id) ==
  send(X, w, action, Payload(nsent + 1), Num(id), Undef)

\* A reply made by hand: send('__CALLBACK__', {error, data}, id).
HandReply == [t |-> "object", error |-> Null, data |-> Str("again")]

SendReply(X, w, id) ==
  send(X, w, CALLBACK_ACTION, HandReply, Num(id), Undef)

\* Sender.prototype.sendThen(action, data, keepAlive): the callback settles the
\* promise; keepAlive is not passed on to send.
SendThen(X, w, action, keepAlive) ==
  send(X, w, action, Payload(nsent + 1), Fn("promise"), Undef)

\* Sender.prototype.dispatch(method, payload):
\* sendThen('dispatch', {action: method, payload: payload}).
DispatchData(method, payload) ==
  [t |-> "object", action |-> method, payload |-> payload]

Dispatch(X, w, method, payload) ==
  send(X, w, "dispatch", DispatchData(method, payload), Fn("promise"), Undef)

\* Some other script posts data to window w (window.postMessage, not through
\* a Channel); src is the window it runs in.
PostRaw(w, src, data) ==
  /\ nsent < MaxSends
  /\ nsent' = nsent + 1
  /\ net' = net \cup {[data |-> data, to |-> w, source |-> src, id |-> nsent + 1, re |-> 0]}
  /\ last' = <<>>
  /\ UNCHANGED <<actions, callbacks, cid, receiver, connected, deferred, issued, fired, spent>>

\* What the callback of sendThen does to its promise when called (err, data).
SettledBy(err, data) ==
  IF Truthy(err) THEN [state |-> "rejected", v |-> err]
  ELSE [state |-> "resolved", v |-> data]

\* The window m.to dispatches the message event m to every connected receiver
\* (makeReceiver's proxyFn passes a truthy e.data on); each runs
\* _recv(e.data, e.source). oc[X]: what the handler that X calls does.
DeliverWith(m, ocs) ==
  LET L == {X \in Listeners(m.to) : Truthy(m.data)} IN
  \E oc \in [L -> ocs] :
  \E R \in {[X \in L |->
               recv(X, actions[X], callbacks[X], cid[X], m.data, m.source, oc[X])]} :
    /\ actions' = [X \in Endpoints |-> IF X \in L THEN R[X].acts ELSE actions[X]]
    /\ callbacks' = [X \in Endpoints |-> IF X \in L THEN R[X].cbs ELSE callbacks[X]]
    /\ net' = (net \ {m}) \cup
                UNION {{Posted(X, R[X].pushes[i], 0, m.id) : i \in DOMAIN R[X].pushes}
                       : X \in L}
    /\ deferred' = deferred \cup
                UNION {{[ep |-> d.ep, recv |-> d.recv, source |-> d.source,
                         p |-> d.p, re |-> m.id] : d \in R[X].awaits} : X \in L}
    /\ fired' = [X \in Endpoints |->
                   IF X \in L /\ R[X].cbcalls # <<>>
                   THEN LET c == R[X].cbcalls[1].cid IN
                        Put(fired[X], c, Lookup0(fired[X], c) + 1)
                   ELSE fired[X]]
    /\ spent' = [X \in Endpoints |->
                   IF X \in L /\ R[X].invoked # <<>> /\ R[X].invoked[1].proxy
                   THEN spent[X] \cup {m.data.action} ELSE spent[X]]
    /\ last' = [X \in L |->
                  [kind |-> "recv", rc |-> m.data, source |-> m.source,
                   id |-> m.id, re |-> m.re,
                   oc |-> IF R[X].invoked # <<>> THEN oc[X] ELSE [k |-> "", m |-> ""],
                   invoked |-> R[X].invoked, cbcalls |-> R[X].cbcalls,
                   pushes |-> R[X].pushes, thrown |-> R[X].thrown]]
    /\ UNCHANGED <<cid, receiver, connected, nsent, issued>>

\* The handlers called do whatever an application handler may do.
Deliver(m) == DeliverWith(m, Outcomes)

\* The then/catch continuation of a handler promise runs, with a transport
\* that does one of pxs.
SettleWith(d, pxs) ==
  LET X == d.ep IN
  \E px \in pxs :
  \E ps \in {settle(X, callbacks[X], cid[X], d.recv, d.source, d.p, px)} :
  /\ deferred' = deferred \ {d}
  /\ net' = net \cup {Posted(X, ps.pushes[i], 0, d.re) : i \in DOMAIN ps.pushes}
  /\ last' = [Y \in {X} |->
                [kind |-> "settle", rc |-> d.recv, source |-> d.source,
                 id |-> d.re, re |-> 0,
                 oc |-> [k |-> IF d.p.ok THEN "resolve" ELSE "reject",
                         m |-> IF ~d.p.ok /\ instanceofError(d.p.v)
                               THEN d.p.v.message ELSE ""],
                 invoked |-> <<>>, cbcalls |-> <<>>,
                 pushes |-> ps.pushes, thrown |-> ps.thrown]]
  /\ UNCHANGED <<actions, callbacks, cid, receiver, connected, nsent, issued, fired, spent>>

\* The transport never raises.
Settle(d) == SettleWith(d, {NoFaults})

\* ------------------------------------------------------- specifications
\* The endpoint whose application sends the requests; the other answers.
Requesters == {"A"}
ManualIds == {1}

\* The registry and binding calls of the application at the endpoints Xs.
ConfigureOf(Xs) ==
  \/ \E X \in Xs : Unlisten(X)
  \/ \E X \in Xs : \E handle \in ListenHandles(X) : Listen(X, handle)
  \/ \E X \in Xs : \E a \in Actions : \E h \in Handlers : On(X, a, h)
  \/ \E X \in Xs : \E a \in Actions : Off(X, a)
  \/ \E X \in Xs : \E a \in Actions : \E h \in Handlers : Once(X, a, h)

Configure == ConfigureOf(Pair)

\* Requests to the other endpoint's window, without and with a reply
\* expected.
Request ==
  \/ \E X \in Requesters : \E w \in PairWindows \ {Home(X)} : \E a \in Actions :
       SendForget(X, w, a)
  \/ \E X \in Requesters : \E w \in PairWindows \ {Home(X)} : \E a \in Actions :
       \E k \in {Undef, Bool(TRUE)} : SendThen(X, w, a, k)

\* Correlated traffic: a requester sends with a callback function, as a
\* promise (to the other endpoint's window or, a loop-back, to its own), or
\* with an id of its own choice; replies made by hand reach the requester's
\* window from the other endpoint, the way a responder feeds a persistent
\* callback, and from the requester itself.
Correlate ==
  \/ \E X \in Requesters : \E w \in PairWindows \ {Home(X)} : \E a \in Actions :
       \E k \in {Undef, Bool(TRUE)} : SendCb(X, w, a, k)
  \/ \E X \in Requesters : \E w \in PairWindows : \E a \in Actions :
       \E k \in {Undef, Bool(TRUE)} : SendThen(X, w, a, k)
  \/ \E X \in Requesters : \E w \in PairWindows \ {Home(X)} : \E a \in Actions :
       \E id \in ManualIds : SendId(X, w, a, id)
  \/ \E X \in Pair : \E R \in Requesters : \E id \in ManualIds :
       SendReply(X, Home(R), id)

Transport ==
  \/ \E m \in net : Deliver(m)
  \/ \E d \in deferred : Settle(d)

\* Dispatch: endpoints are configured at will while requests arrive.
Next == Configure \/ Request \/ Transport

Spec == Init /\ [][Next]_vars

\* The endpoints Xs bound to their windows (new Channel({channel, name,
\* receiver: window}), or listen(window)) with the registries acts; nothing
\* sent yet.
BoundAt(Xs, acts) ==
  /\ actions = acts
  /\ callbacks = [X \in Endpoints |-> EmptyTable]
  /\ cid = [X \in Endpoints |-> 0]
  /\ receiver = [X \in Endpoints |-> IF X \in Xs THEN Home(X) ELSE "none"]
  /\ connected = {[win |-> Home(X), ep |-> X] : X \in Xs}
  /\ net = {}
  /\ deferred = {}
  /\ nsent = 0
  /\ issued = [X \in Endpoints |-> <<>>]
  /\ fired = [X \in Endpoints |-> EmptyTable]
  /\ spent = [X \in Endpoints |-> {}]
  /\ last = <<>>

\* The endpoints of the pair bound, each to its own window.
Bound(acts) == BoundAt(Pair, acts)

\* The registries in which the endpoints Ys have entry under action, and
\* nobody anything else.
Registry(Ys, action, entry) ==
  [X \in Endpoints |-> IF X \in Ys THEN Put(EmptyTable, action, entry) ELSE EmptyTable]

\* Correlation: both endpoints listen and answer action "a" (the state after
\* listen(window) and on("a", h1) at each), and requests, replies and
\* hand-made replies cross.
InitCorr == Bound(Registry(Pair, "a", Registered("h1")))

NextCorr == Correlate \/ Transport

SpecCorr == InitCorr /\ [][NextCorr]_vars

\* Dispatch round trip: both endpoints of the pair are bound, B has the router
\* registered under 'dispatch', with on or with once; A dispatches methods
\* with payloads (the n-th send call its own), and the router returns its
\* string, directly or as a promise that resolves with it.
InitFlux ==
  \E entry \in {Registered("route"), OnceProxy("route")} :
    Bound(Registry({"B"}, "dispatch", entry))

Methods == {"get", "set"}
DispatchPayload(n) == Str("v" \o ToString(n))
Returns == {oc \in Outcomes : oc.k \in {"return", "resolve"}}

Flux ==
  \/ \E method \in Methods :
       Dispatch("A", Home("B"), Str(method), DispatchPayload(nsent + 1))
  \/ On("B", "dispatch", "route")
  \/ Once("B", "dispatch", "route")

TransportFlux ==
  \/ \E m \in net : DeliverWith(m, Returns)
  \/ \E d \in deferred : Settle(d)

NextFlux == Flux \/ TransportFlux

SpecFlux == InitFlux /\ [][NextFlux]_vars

\* Faulty transport: B is bound, with or without a handler for "a"; A's
\* requests arrive, and every push of a reply may raise.
InitFault ==
  \E Ys \in {{}, {"B"}} : Bound(Registry(Ys, "a", Registered("h1")))

FaultyOutcomes ==
  {[k |-> oc.k, m |-> oc.m, px |-> px] : oc \in Outcomes, px \in [{1, 2} -> PushFaults]}

TransportFault ==
  \/ \E m \in net : DeliverWith(m, FaultyOutcomes)
  \/ \E d \in deferred : SettleWith(d, [{1, 2} -> PushFaults])

NextFault == Request \/ TransportFault

SpecFault == InitFault /\ [][NextFault]_vars

\* Foreign traffic: the endpoints are bound and answer "a" as in InitCorr, A
\* has requests pending, and other scripts post values that are no objects
\* and envelopes of another channel, among them requests and replies that
\* carry a correlation id.
Strays ==
  {Str("hello"), Num(7)}
    \cup {[t |-> "object", data |-> Str("x"), channel |-> "other", from |-> "B",
           cid |-> 1, action |-> action] : action \in Actions \cup {CALLBACK_ACTION}}

Foreign ==
  \/ \E a \in Actions : \E k \in {Undef, Bool(TRUE)} : SendThen("A", Home("B"), a, k)
  \/ \E w \in PairWindows : \E src \in PairWindows \ {w} : \E data \in Strays :
       PostRaw(w, src, data)

NextForeign == Foreign \/ Transport

SpecForeign == InitCorr /\ [][NextForeign]_vars

\* Pending requests: the endpoints are bound and answer "a" as in InitCorr.
\* The requester sends requests, is configured at will, and is handed what
\* it must not take for a reply to them: its own requests and hand-made
\* replies (loop-back), values that are no objects and envelopes of another
\* channel.
Echo ==
  \/ \E X \in Requesters : \E a \in Actions : \E k \in {Undef, Bool(TRUE)} :
       SendThen(X, Home(X), a, k)
  \/ \E X \in Requesters : \E id \in ManualIds : SendReply(X, Home(X), id)

NextFrame == ConfigureOf(Requesters) \/ Foreign \/ Echo \/ Transport

SpecFrame == InitCorr /\ [][NextFrame]_vars

\* Loop-back: the endpoints X, Y and Z of one channel listen on one window,
\* the bus, and post to it, so each is handed every envelope, and a reply to
\* e.source goes to the bus as well. Z answers "a"; X and Y send requests.
InitLoop == BoundAt(Loop, Registry({"Z"}, "a", Registered("h1")))

Callers == {"X", "Y"}

Bus == \E C \in Callers : \E a \in Actions : SendThen(C, Home(C), a, Undef)

TransportLoop ==
  \/ \E m \in net : DeliverWith(m, Returns)
  \/ \E d \in deferred : Settle(d)

NextLoop == Bus \/ TransportLoop

SpecLoop == InitLoop /\ [][NextLoop]_vars

\* Failing handlers: both endpoints are bound, B answers "a", A sends
\* sendThen requests, and every call of B's handler fails: it throws, or
\* returns a promise that rejects, with an Error or with a falsy value.
FalsyValues == {Undef, Null, Num(0), Str("")}

Failures ==
  {oc \in Outcomes : oc.k \in {"throw", "reject"}}
    \cup {[k |-> kk, m |-> "", f |-> v] : kk \in {"throw", "reject"}, v \in FalsyValues}

InitFail == Bound(Registry({"B"}, "a", Registered("h1")))

Ask == \E a \in Actions : SendThen("A", Home("B"), a, Undef)

TransportFail ==
  \/ \E m \in net : DeliverWith(m, Failures)
  \/ \E d \in deferred : Settle(d)

NextFail == Ask \/ TransportFail

SpecFail == InitFail /\ [][NextFail]_vars

\* Binding: the endpoints of the pair, bound and answering as in InitCorr,
\* rebind to either window, to a handle that gives no receiver or to none,
\* and unbind, while requests arrive.
Bind ==
  \/ \E X \in Pair : Unlisten(X)
  \/ \E X \in Pair : \E handle \in PairWindows \cup {"plain", "none"} : Listen(X, handle)

NextBind == Bind \/ Request \/ Transport

SpecBind == InitCorr /\ [][NextBind]_vars

\* ----------------------------------------------------------- the claims
\* The sends of endpoint X that registered a callback, as a set.
Issued(X) == {issued[X][k] : k \in DOMAIN issued[X]}

\* The sends (by their number) that registered a callback at some endpoint:
\* a reply with re among them answers a request that allocated its own id.
AllocatedSends == UNION {{q.id : q \in Issued(X)} : X \in Endpoints}

\* What a sendThen promise may be settled with for the request sent as the
\* n-th send: a handler's value for the payload of that request, or the plain
\* {message} of the Error the handler failed with.
OwnResults(n) ==
  {[state |-> "resolved", v |-> Returned(h, Payload(n))] : h \in Handlers}
    \cup {[state |-> "rejected", v |-> [t |-> "object", message |-> mm]] : mm \in Messages}

\* C1: whenever a reply that answers an id-allocating request calls the
\* callback of a sendThen promise, the reply answers the very request that
\* registered this callback, and the promise is settled with a result for
\* that request's payload -- in whatever order the replies are delivered.
C1_OwnResult ==
  \A X \in DOMAIN last :
    \A i \in DOMAIN last[X].cbcalls :
      \A q \in Issued(X) :
        (/\ q.c = last[X].cbcalls[i].cid
         /\ q.cb = Fn("promise")
         /\ last[X].re \in AllocatedSends)
        => /\ last[X].re = q.id
           /\ SettledBy(last[X].cbcalls[i].error, last[X].cbcalls[i].data)
                \in OwnResults(q.id)

\* Two sendThen promises were outstanding together and the reply to the
\* second request was delivered first: the first is being resolved now.
C1_Witness ==
  /\ "A" \in DOMAIN last
  /\ last["A"].cbcalls # <<>>
  /\ last["A"].cbcalls[1].cid = 1
  /\ last["A"].cbcalls[1].cb = Fn("promise")
  /\ last["A"].cbcalls[1].data = Returned("h1", Payload(1))
  /\ last["A"].re = 1
  /\ Lookup0(fired["A"], 2) = 1
  /\ \E q \in Issued("A") : q.c = 2 /\ q.cb = Fn("promise") /\ q.id = 2

\* C2 (as claimed): a callback registered with keepAlive true is still in the
\* pending-callback table after it was called.
C2_PersistentStays ==
  \A X \in Endpoints :
    \A q \in Issued(X) :
      (Truthy(q.keepAlive) /\ Lookup0(fired[X], q.c) >= 1) => q.c \in DOMAIN callbacks[X]

\* C3: a callback registered without keepAlive is called at most once, its
\* entry is gone once it was called, and a callback envelope that finds no
\* entry calls nothing, sends nothing and throws nothing.
C3_AtMostOnce ==
  /\ \A X \in Endpoints :
       \A q \in Issued(X) :
         ~Truthy(q.keepAlive) =>
           /\ Lookup0(fired[X], q.c) <= 1
           /\ Lookup0(fired[X], q.c) = 1 => q.c \notin DOMAIN callbacks[X]
  /\ \A X \in DOMAIN last :
       (/\ last[X].kind = "recv"
        /\ last[X].rc.action = CALLBACK_ACTION
        /\ Lookup0(fired[X], last[X].rc.cid) = 1
        /\ \E q \in Issued(X) : q.c = last[X].rc.cid /\ ~Truthy(q.keepAlive)
        /\ last[X].rc.cid \notin DOMAIN callbacks[X])
       => /\ Len(last[X].cbcalls) <= 1
          /\ last[X].invoked = <<>>
          /\ last[X].pushes = <<>>
          /\ last[X].thrown = NoThrow

\* A second reply with the id of a consumed callback has just been dropped.
C3_Witness ==
  /\ "A" \in DOMAIN last
  /\ last["A"].kind = "recv"
  /\ last["A"].rc.action = CALLBACK_ACTION
  /\ last["A"].rc.cid = 1
  /\ last["A"].cbcalls = <<>>
  /\ Lookup0(fired["A"], 1) = 1
  /\ \E q \in Issued("A") : q.c = 1 /\ ~Truthy(q.keepAlive)

\* C10: the ids an endpoint attaches for its reply handlers are strictly
\* increasing from 1, the latest is the counter, and every key of the
\* pending-callback table is at most the counter.
C10_IdsIncrease ==
  \A X \in Endpoints :
    /\ \A i, j \in DOMAIN issued[X] : i < j => issued[X][i].c < issued[X][j].c
    /\ \A i \in DOMAIN issued[X] : issued[X][i].c >= 1
    /\ issued[X] # <<>> => issued[X][Len(issued[X])].c = cid[X]
    /\ issued[X] = <<>> => cid[X] = 0
    /\ \A c \in DOMAIN callbacks[X] : c <= cid[X]

\* Id 1 was freed by its reply, and the request sent next carries id 2.
C10_Witness ==
  /\ Lookup0(fired["A"], 1) = 1
  /\ DOMAIN callbacks["A"] = {2}
  /\ Len(issued["A"]) = 2
  /\ issued["A"][2].c = 2

\* Message m is dispatched to endpoint Y in this step.
Dispatched(m, Y) ==
  m \in net /\ m \notin net' /\ [win |-> m.to, ep |-> Y] \in connected

\* m carries a request another endpoint of the channel sent: an action, not a
\* callback.
RequestFor(m, Y) ==
  /\ m.data.channel = ChannelName
  /\ m.data.from # Y
  /\ m.data.action # CALLBACK_ACTION

\* r is the reply to request m from endpoint Y with this error and data.
ReplyTo(r, m, Y, error, data) ==
  /\ r.to = m.source
  /\ r.data = [t |-> "object", channel |-> ChannelName, from |-> Y,
               action |-> CALLBACK_ACTION, cid |-> m.data.cid,
               data |-> [t |-> "object", error |-> error, data |-> data]]

\* The error of an action-not-found reply: it names channel, endpoint, action.
NotFoundError(Y, action) ==
  [t |-> "object",
   message |-> "channel \"" \o ChannelName \o "." \o Y \o "." \o action \o "\" not found"]

\* C4: when a request for action a with payload p, sent by another endpoint,
\* is dispatched to a listening endpoint Y that has on(a, h) registered, h is
\* called exactly once in that dispatch, with p as its only argument.
C4_HandlerCalledOnce ==
  [][\A m \in net : \A Y \in Endpoints :
       (/\ Dispatched(m, Y)
        /\ RequestFor(m, Y)
        /\ m.data.action \in DOMAIN actions[Y]
        /\ ~actions[Y][m.data.action].proxy)
       => /\ Y \in DOMAIN last'
          /\ last'[Y].invoked =
               <<[fn |-> actions[Y][m.data.action].f, args |-> <<m.data.data>>,
                  proxy |-> FALSE]>>]_vars

\* B, listening with on("a", h1), has just called h1 with A's first payload.
C4_Witness ==
  /\ "B" \in DOMAIN last
  /\ last["B"].kind = "recv"
  /\ last["B"].rc.from = "A"
  /\ last["B"].rc.data = Payload(1)
  /\ last["B"].invoked = <<[fn |-> "h1", args |-> <<Payload(1)>>, proxy |-> FALSE]>>

\* C5: when a request with a correlation id names an action the receiving
\* endpoint has no handler for, no handler is called, nothing is thrown out of
\* _recv, and a reply goes back to the caller whose error message names the
\* channel, the receiving endpoint and the action.
C5_NotFoundReply ==
  [][\A m \in net : \A Y \in Endpoints :
       (/\ Dispatched(m, Y)
        /\ RequestFor(m, Y)
        /\ m.data.cid # 0
        /\ m.data.action \notin DOMAIN actions[Y])
       => /\ Y \in DOMAIN last'
          /\ last'[Y].invoked = <<>>
          /\ last'[Y].cbcalls = <<>>
          /\ last'[Y].thrown = NoThrow
          /\ \E r \in net' \ net :
               ReplyTo(r, m, Y, NotFoundError(Y, m.data.action), Undef)]_vars

\* B, with nothing registered, has just answered A's request "not found".
C5_Witness ==
  /\ "B" \in DOMAIN last
  /\ last["B"].kind = "recv"
  /\ last["B"].rc.cid = 1
  /\ last["B"].invoked = <<>>
  /\ \E r \in net : /\ r.to = Home("A")
                     /\ r.data.action = CALLBACK_ACTION
                     /\ r.data.cid = 1
                     /\ r.data.data.error.message = "channel \"demo.B.a\" not found"

\* C6: a handler registered with once fires at most once: the dispatch that
\* calls it removes its registry entry (whatever the handler does), the entry
\* stays absent until the action is registered again, and a request with a
\* correlation id that arrives meanwhile calls nothing and is answered
\* "not found".
C6_OnceFiresOnce ==
  [][/\ \A Y \in Endpoints : \A a \in spent'[Y] : a \notin DOMAIN actions'[Y]
     /\ \A m \in net : \A Y \in Endpoints :
          (/\ Dispatched(m, Y)
           /\ RequestFor(m, Y)
           /\ m.data.action \in DOMAIN actions[Y]
           /\ actions[Y][m.data.action].proxy)
          => /\ Len(last'[Y].invoked) = 1
             /\ last'[Y].invoked[1].fn = actions[Y][m.data.action].f
             /\ m.data.action \notin DOMAIN actions'[Y]
     /\ \A m \in net : \A Y \in Endpoints :
          (/\ Dispatched(m, Y)
           /\ RequestFor(m, Y)
           /\ m.data.action \in spent[Y])
          => /\ last'[Y].invoked = <<>>
             /\ m.data.cid # 0 =>
                  \E r \in net' \ net :
                    ReplyTo(r, m, Y, NotFoundError(Y, m.data.action), Undef)]_vars

\* The once handler of B ran for the first request; the second request has
\* just been answered "not found".
C6_Witness ==
  /\ "B" \in DOMAIN last
  /\ last["B"].kind = "recv"
  /\ "a" \in spent["B"]
  /\ last["B"].rc.action = "a"
  /\ last["B"].rc.cid = 2
  /\ last["B"].invoked = <<>>
  /\ last["B"].pushes # <<>>
  /\ last["B"].pushes[1].data.data.error = NotFoundError("B", "a")

\* C7 (as claimed): for a request with a correlation id, whenever the handler
\* call fails -- throws an Error with message m, or returns a promise that
\* rejects with one -- the reply is the callback envelope with the request's
\* id and the error {message: m}: a throw and a rejection that has run its
\* continuation have sent exactly this reply, and no other reply is sent for
\* the call.
C7_SameErrorReply ==
  \A Y \in DOMAIN last :
    (last[Y].rc.cid # 0 /\ last[Y].oc.k \in {"throw", "reject"})
    => /\ \A i \in DOMAIN last[Y].pushes :
            last[Y].pushes[i] =
              [to |-> last[Y].source,
               data |-> [t |-> "object", channel |-> ChannelName, from |-> Y,
                         action |-> CALLBACK_ACTION, cid |-> last[Y].rc.cid,
                         data |-> [t |-> "object",
                                   error |-> [t |-> "object", message |-> last[Y].oc.m],
                                   data |-> Undef]]]
       /\ (last[Y].oc.k = "throw" \/ last[Y].kind = "settle") => Len(last[Y].pushes) = 1

\* C8: an envelope whose from is the receiving endpoint's own name calls no
\* action handler and no callback, whatever its action and correlation id;
\* it changes neither table and nothing is sent for it.
C8_SelfEcho ==
  [][\A m \in net : \A Y \in Endpoints :
       (Dispatched(m, Y) /\ m.data.from = Y)
       => /\ Y \in DOMAIN last'
          /\ last'[Y].invoked = <<>>
          /\ last'[Y].cbcalls = <<>>
          /\ actions'[Y] = actions[Y]
          /\ callbacks'[Y] = callbacks[Y]
          /\ net' = net \ {m}]_vars

\* A has received its own hand-made reply for id 1 while the callback under
\* id 1 is pending and a handler for "a" is registered: nothing was called.
C8_Witness ==
  /\ "A" \in DOMAIN last
  /\ last["A"].kind = "recv"
  /\ last["A"].rc.from = "A"
  /\ last["A"].rc.action = CALLBACK_ACTION
  /\ last["A"].rc.cid \in DOMAIN callbacks["A"]
  /\ "a" \in DOMAIN actions["A"]
  /\ last["A"].cbcalls = <<>>

\* C9: for a request without a correlation id nothing is sent back, neither
\* by the dispatch (handler returns, throws or is missing) nor by the
\* continuation of the promise the handler returned.
C9_FireAndForget ==
  [][/\ \A m \in net :
          (m \notin net' /\ m.data.action # CALLBACK_ACTION /\ m.data.cid = 0)
          => net' = net \ {m}
     /\ \A d \in deferred :
          (d \notin deferred' /\ d.recv.cid = 0) => net' = net]_vars

\* B's handler has just thrown for a request without id: nothing is in flight.
C9_Witness ==
  /\ "B" \in DOMAIN last
  /\ last["B"].kind = "recv"
  /\ last["B"].rc.cid = 0
  /\ last["B"].invoked # <<>>
  /\ last["B"].oc.k = "throw"
  /\ net = {}

\* The message listeners endpoint X has registered, in the state and after
\* the step.
Connections(X) == {c \in connected : c.ep = X}
ConnectionsAfter(X) == {c \in connected' : c.ep = X}

\* C11: after every listen and unlisten call an endpoint has at most one
\* message listener connected, the one of its current receiver; whenever the
\* binding changes (listen on another handle, unlisten) the listener of the
\* former receiver is gone; listen with an absent handle, or one that gives no
\* receiver, and unlisten leave the endpoint without any listener.
C11_OneReceiver ==
  [][\A X \in Endpoints :
       /\ Cardinality(ConnectionsAfter(X)) <= 1
       /\ ConnectionsAfter(X) =
            IF receiver'[X] = "none" THEN {}
            ELSE {[win |-> receiver'[X], ep |-> X]}
       /\ (receiver[X] # "none" /\ receiver'[X] # receiver[X])
            => [win |-> receiver[X], ep |-> X] \notin connected']_vars

\* A, bound to its own window at first, has listened on B's window and has
\* just been handed its own request there, while B is unbound.
C11_Witness ==
  /\ receiver["A"] = Home("B")
  /\ Connections("A") = {[win |-> Home("B"), ep |-> "A"]}
  /\ receiver["B"] = "none"
  /\ Connections("B") = {}
  /\ "A" \in DOMAIN last
  /\ last["A"].rc.from = "A"

\* The string the router returns for the dispatch made as the n-th send call,
\* whatever its method.
RoundTrip(n) ==
  {Str(method \o ":" \o DispatchPayload(n).v) : method \in Methods}

\* C12 (as claimed): whenever the promise of a dispatch(method, payload) call
\* of A is settled by the reply to it, and B had the router registered under
\* 'dispatch' when the request arrived (the reply is not "not found"), the
\* promise resolves with method + ':' + payload.
C12_RoundTrip ==
  \A i \in DOMAIN (IF "A" \in DOMAIN last THEN last["A"].cbcalls ELSE <<>>) :
    \A q \in Issued("A") :
      (/\ q.c = last["A"].cbcalls[i].cid
       /\ last["A"].cbcalls[i].error # NotFoundError("B", "dispatch"))
      => /\ SettledBy(last["A"].cbcalls[i].error, last["A"].cbcalls[i].data).state
              = "resolved"
         /\ SettledBy(last["A"].cbcalls[i].error, last["A"].cbcalls[i].data).v
              \in RoundTrip(q.id)

\* The latest dispatch or continuation at Y was for a request with a
\* correlation id that Y accepted, and it is not waiting for the handler's
\* promise: the reply is due.
ReplyDue(Y) ==
  /\ last[Y].rc.action # CALLBACK_ACTION
  /\ last[Y].rc.cid # 0
  /\ Accepted(Y, last[Y].rc)
  /\ ~\E d \in deferred : d.ep = Y /\ d.re = last[Y].id

\* C13 (as claimed): for a request with a correlation id, the dispatch, or
\* the continuation of the promise the handler returned, posts exactly one
\* envelope: a callback with the request's id to the window the request came
\* from -- also when the transport's send raises.
C13_ExactlyOneReply ==
  \A Y \in DOMAIN last :
    ReplyDue(Y) =>
      /\ Len(last[Y].pushes) = 1
      /\ \A i \in DOMAIN last[Y].pushes :
           /\ last[Y].pushes[i].to = last[Y].source
           /\ last[Y].pushes[i].data.action = CALLBACK_ACTION
           /\ last[Y].pushes[i].data.cid = last[Y].rc.cid

\* C14 (as claimed): the first request for an action registered with
\* once(a, h) calls h with the request's payload as its only argument, and
\* when h returns a value and the request has a correlation id, the reply
\* carries that value as its data.
C14_OnceLikeOn ==
  \A Y \in DOMAIN last :
    (/\ last[Y].kind = "recv"
     /\ last[Y].invoked # <<>>
     /\ last[Y].invoked[1].proxy)
    => /\ last[Y].invoked[1].args = <<last[Y].rc.data>>
       /\ (last[Y].rc.cid # 0 /\ last[Y].oc.k = "return")
            => /\ Len(last[Y].pushes) = 1
               /\ last[Y].pushes[1].data.data =
                    [t |-> "object", error |-> Null,
                     data |-> Returned(last[Y].invoked[1].fn, last[Y].rc.data)]

\* C15: when a callback envelope from another endpoint of the channel is
\* dispatched to an endpoint that has no pending entry under its correlation
\* id, no handler and no callback is called, nothing is thrown, nothing is
\* sent or deferred, and the endpoint's registry, pending-callback table and
\* counter are as before.
C15_UnmatchedCallback ==
  [][\A m \in net : \A Y \in Endpoints :
       (/\ Dispatched(m, Y)
        /\ isObject(m.data)
        /\ m.data.channel = ChannelName
        /\ m.data.from # Y
        /\ m.data.action = CALLBACK_ACTION
        /\ m.data.cid \notin DOMAIN callbacks[Y])
       => /\ Y \in DOMAIN last'
          /\ last'[Y].invoked = <<>>
          /\ last'[Y].cbcalls = <<>>
          /\ last'[Y].thrown = NoThrow
          /\ net' = net \ {m}
          /\ deferred' = deferred
          /\ actions'[Y] = actions[Y]
          /\ callbacks'[Y] = callbacks[Y]
          /\ cid'[Y] = cid[Y]]_vars

\* A has just been handed a reply of B for id 1, under which it neither holds
\* an entry nor ever called a callback.
C15_Witness ==
  /\ "A" \in DOMAIN last
  /\ last["A"].kind = "recv"
  /\ last["A"].rc.action = CALLBACK_ACTION
  /\ last["A"].rc.from = "B"
  /\ last["A"].rc.cid = 1
  /\ Lookup0(fired["A"], 1) = 0
  /\ 1 \notin DOMAIN callbacks["A"]
  /\ last["A"].cbcalls = <<>>

\* C16: when a value that is no object, or an envelope whose channel is not
\* the endpoint's, is dispatched to an endpoint, no handler and no callback is
\* called, nothing is thrown, nothing is sent (whatever correlation id it
\* carries) or deferred, and the endpoint's registry, pending-callback table
\* and counter are as before.
C16_StrayDropped ==
  [][\A m \in net : \A Y \in Endpoints :
       (/\ Dispatched(m, Y)
        /\ (~isObject(m.data) \/ m.data.channel # ChannelName))
       => /\ Y \in DOMAIN last'
          /\ last'[Y].invoked = <<>>
          /\ last'[Y].cbcalls = <<>>
          /\ last'[Y].thrown = NoThrow
          /\ net' = net \ {m}
          /\ deferred' = deferred
          /\ actions'[Y] = actions[Y]
          /\ callbacks'[Y] = callbacks[Y]
          /\ cid'[Y] = cid[Y]]_vars

\* A, with a callback pending under id 1, has just been handed a reply of
\* another channel that carries id 1: the callback was not called and is
\* still pending.
C16_Witness ==
  /\ "A" \in DOMAIN last
  /\ last["A"].kind = "recv"
  /\ isObject(last["A"].rc)
  /\ last["A"].rc.channel = "other"
  /\ last["A"].rc.action = CALLBACK_ACTION
  /\ last["A"].rc.cid = 1
  /\ 1 \in DOMAIN callbacks["A"]
  /\ last["A"].cbcalls = <<>>

\* C17: an entry of an endpoint's pending-callback table disappears only in
\* a step that dispatches to this endpoint a callback envelope of its channel,
\* from another endpoint, with the entry's correlation id. No other step (on,
\* off, once, listen, unlisten, a send, the dispatch of anything else, a
\* promise continuation) removes an entry.
C17_PendingStays ==
  [][\A X \in Endpoints : \A c \in DOMAIN callbacks[X] :
       c \notin DOMAIN callbacks'[X]
       => \E m \in net :
            /\ Dispatched(m, X)
            /\ isObject(m.data)
            /\ m.data.channel = ChannelName
            /\ m.data.from # X
            /\ m.data.action = CALLBACK_ACTION
            /\ m.data.cid = c]_vars

\* A has unregistered its handler and unbound and bound itself again since it
\* sent request 1, and has just been handed its own hand-made reply for id 1:
\* the entry is still pending.
C17_Witness ==
  /\ "A" \in DOMAIN last
  /\ last["A"].kind = "recv"
  /\ isObject(last["A"].rc)
  /\ last["A"].rc.from = "A"
  /\ last["A"].rc.action = CALLBACK_ACTION
  /\ last["A"].rc.cid = 1
  /\ "a" \notin DOMAIN actions["A"]
  /\ 1 \in DOMAIN callbacks["A"]
  /\ Lookup0(fired["A"], 1) = 0

\* C18: on a loop-back transport shared by three endpoints, a pending callback
\* of an endpoint is invoked only by a reply to a request this endpoint sent:
\* whenever an endpoint has just called a pending callback, the envelope it was
\* handed answers one of the endpoint's own send calls.
C18_OwnReplyOnly ==
  \A E \in Loop :
    (E \in DOMAIN last /\ last[E].kind = "recv" /\ last[E].cbcalls # <<>>)
    => \E i \in DOMAIN issued[E] : issued[E][i].id = last[E].re

\* C19: a send whose third argument is a number (the step posts an envelope
\* with a correlation id and issues no callback) attaches that number as the
\* envelope's cid and changes neither the pending-callback tables nor the
\* correlation-id counters, so an entry pending under the same id stays as it
\* is and takes the next reply with that id (C19_Witness). The ids are those
\* the counter gives out, 1 and up; _sendTo takes 0 for no third argument.
C19_SuppliedId ==
  [][\A m \in net' \ net :
       (nsent' = nsent + 1 /\ m.id = nsent' /\ m.data.cid # 0 /\ issued' = issued)
       => /\ m.data.cid \in ManualIds
          /\ callbacks' = callbacks
          /\ cid' = cid]_vars

\* A sent request 1 with a callback function, then another request with the
\* number 1 as its id; the reply to the second request has just invoked the
\* callback of the first.
C19_Witness ==
  /\ nsent = 2
  /\ Len(issued["A"]) = 1
  /\ issued["A"][1].c = 1
  /\ issued["A"][1].id = 1
  /\ "A" \in DOMAIN last
  /\ last["A"].kind = "recv"
  /\ last["A"].re = 2
  /\ last["A"].rc.action = CALLBACK_ACTION
  /\ last["A"].rc.cid = 1
  /\ last["A"].cbcalls # <<>>
  /\ last["A"].cbcalls[1].cid = 1

\* C20: a sendThen request whose handler fails, with whatever value, rejects
\* the caller's promise. Under SpecFail every call of B's handler fails, so
\* every promise callback A calls must reject its promise.
C20_FailureRejects ==
  ("A" \in DOMAIN last /\ last["A"].kind = "recv")
  => \A i \in DOMAIN last["A"].cbcalls :
       last["A"].cbcalls[i].cb = Fn("promise")
       => SettledBy(last["A"].cbcalls[i].error, last["A"].cbcalls[i].data).state
            = "rejected"

====
